---- MODULE Spec2Model ----
(***************************************************************************)
(* A model of the read-buf crate: ReadBuf (one incrementally-initialized   *)
(* byte slice), ReadBufs (a sequence of such slices with one cumulative     *)
(* cursor), the Read2 loops built on them (read_buf_exact, read_to_end2)    *)
(* and copy.                                                                *)
(*                                                                          *)
(* A byte of memory is a value of ByteVals, or U when it is not             *)
(* initialized.  Sequences are 1-based here and 0-based in the source: the  *)
(* source's byte offset k is index k + 1.                                   *)
(***************************************************************************)
EXTENDS Integers, Sequences, FiniteSets, TLC

VARIABLES readBuf, readBufs, ctor, ret, panicked,
          pc, loc, vec, reader, reads, result, sink

vars == <<readBuf, readBufs, ctor, ret, panicked,
          pc, loc, vec, reader, reads, result, sink>>

dataVars == <<readBuf, readBufs, ctor, ret, panicked>>
loopVars == <<pc, loc, vec, reader, reads, result, sink>>

----------------------------------------------------------------------------
(* Bounds of the model *)

MaxLen == 3
MaxSlices == 3
MaxSliceLen == 2
MaxTotal == 3
MaxExactLen == 4
MaxVecLen == 2
MaxSpare == 2
MaxStream == 6
MaxChunk == 2
MaxCopyReads == 3

\* buf.reserve(32) of read_to_end2
ReserveChunk == 32

\* the stack buffer of copy: [MaybeUninit::uninit(); 4096]
CopyBufLen == 4096

\* an uninitialized byte (MaybeUninit<u8> that was never written)
U == 0 - 1
ByteVals == {0, 1}

Max(a, b) == IF a >= b THEN a ELSE b
Min(a, b) == IF a <= b THEN a ELSE b
SaturatingSub(a, b) == IF a >= b THEN a - b ELSE 0

RECURSIVE SumLens(_)
SumLens(s) == IF s = <<>> THEN 0 ELSE Len(Head(s)) + SumLens(Tail(s))

RECURSIVE Flat(_)
Flat(s) == IF s = <<>> THEN <<>> ELSE Head(s) \o Flat(Tail(s))

Take(s, n) == SubSeq(s, 1, n)
Drop(s, n) == SubSeq(s, n + 1, Len(s))
Fill(n, v) == [i \in 1..n |-> v]

\* ctor records how each buffer was constructed: the constructor of readBuf
\* and the length of the slice it was given, and the constructor of readBufs.
\* ret records the last call: its name, its argument, what it returned, and
\* whether it came right after an as_init_to of the same buffer.

\* the first n bytes of s are initialized
InitPrefix(s, n) == \A i \in 1..n : s[i] # U

----------------------------------------------------------------------------
(* ReadBuf: src/src/read_buf.rs *)

ReadBuf_new(buf) == [buf |-> buf, initialized |-> Len(buf)]

ReadBuf_new_uninit(buf) == [buf |-> buf, initialized |-> 0]

ReadBuf_len(rb) == Len(rb.buf)

ReadBuf_initialized(rb) == rb.initialized

\* assume_initialized as a plain store of n, which can lower the cursor
ReadBuf_assume_initialized_Store(rb, n) == [rb EXCEPT !.initialized = n]

ReadBuf_assume_initialized(rb, n) ==
    [rb EXCEPT !.initialized = Max(rb.initialized, n)]

\* a store of v at offset i - 1 through the slice as_uninit returns
ReadBuf_as_uninit_write(rb, i, v) == [rb EXCEPT !.buf[i] = v]

\* as_slices splitting at buf.len() instead of at initialized
ReadBuf_as_slices_AtLen(rb) ==
    [head |-> Take(rb.buf, Len(rb.buf)), tail |-> Drop(rb.buf, Len(rb.buf))]

\* (head, tail) = buf.split_at_mut(initialized)
ReadBuf_as_slices(rb) ==
    [head |-> Take(rb.buf, rb.initialized), tail |-> Drop(rb.buf, rb.initialized)]

\* as_init_to zero-filling buf[..len] instead of buf[initialized..len]
ReadBuf_as_init_to_Rezero(rb, len) ==
    IF len > Len(rb.buf)
    THEN [rb |-> rb, panic |-> TRUE, out |-> <<>>]
    ELSE IF len > rb.initialized
    THEN LET zeroed == [i \in 1..Len(rb.buf) |-> IF i <= len THEN 0 ELSE rb.buf[i]]
         IN [rb |-> [buf |-> zeroed, initialized |-> len],
             panic |-> FALSE, out |-> Take(zeroed, len)]
    ELSE [rb |-> rb, panic |-> FALSE, out |-> Take(rb.buf, len)]

\* as_init_to without the bounds check of the slicing: a len past the end
\* zero-fills to the end and is stored as the cursor
ReadBuf_as_init_to_Unchecked(rb, len) ==
    IF len > rb.initialized
    THEN LET zeroed == [i \in 1..Len(rb.buf) |->
                          IF i > rb.initialized /\ i <= len THEN 0 ELSE rb.buf[i]]
         IN [rb |-> [buf |-> zeroed, initialized |-> len],
             panic |-> FALSE, out |-> Take(zeroed, Min(len, Len(rb.buf)))]
    ELSE [rb |-> rb, panic |-> FALSE, out |-> Take(rb.buf, len)]

\* Zero-fills buf[initialized..len] and raises the cursor when
\* len > initialized; both slicings panic when len > buf.len().
ReadBuf_as_init_to(rb, len) ==
    IF len > Len(rb.buf)
    THEN [rb |-> rb, panic |-> TRUE, out |-> <<>>]
    ELSE IF len > rb.initialized
    THEN LET zeroed == [i \in 1..Len(rb.buf) |->
                          IF i > rb.initialized /\ i <= len THEN 0 ELSE rb.buf[i]]
         IN [rb |-> [buf |-> zeroed, initialized |-> len],
             panic |-> FALSE, out |-> Take(zeroed, len)]
    ELSE [rb |-> rb, panic |-> FALSE, out |-> Take(rb.buf, len)]

ReadBuf_as_init(rb) == ReadBuf_as_init_to(rb, Len(rb.buf))

----------------------------------------------------------------------------
(* ReadBufs: src/src/read_bufs.rs *)

ReadBufs_new(bufs) == [bufs |-> bufs, initialized |-> SumLens(bufs)]

ReadBufs_new_uninit(bufs) == [bufs |-> bufs, initialized |-> 0]

ReadBufs_initialized(rbs) == rbs.initialized

ReadBufs_assume_initialized(rbs, initialized) ==
    [rbs EXCEPT !.initialized = Max(rbs.initialized, initialized)]

\* a store of v at offset j - 1 of slice k - 1 through as_uninit's slices
ReadBufs_as_uninit_write(rbs, k, j, v) == [rbs EXCEPT !.bufs[k][j] = v]

\* the split of as_slices with remaining <= b.len() for remaining < b.len()
RECURSIVE SplitPosition_Inclusive(_, _, _)
SplitPosition_Inclusive(bufs, i, remaining) ==
    IF i > Len(bufs)
    THEN [some |-> FALSE, split |-> 0, remaining |-> remaining]
    ELSE IF remaining <= Len(bufs[i])
    THEN [some |-> TRUE, split |-> i - 1, remaining |-> remaining]
    ELSE SplitPosition_Inclusive(bufs, i + 1, remaining - Len(bufs[i]))

\* bufs.iter().position(..) of as_slices from slice i on: the 0-based index
\* of the first slice longer than what remains of the cursor, or None
RECURSIVE SplitPosition(_, _, _)
SplitPosition(bufs, i, remaining) ==
    IF i > Len(bufs)
    THEN [some |-> FALSE, split |-> 0, remaining |-> remaining]
    ELSE IF remaining < Len(bufs[i])
    THEN [some |-> TRUE, split |-> i - 1, remaining |-> remaining]
    ELSE SplitPosition(bufs, i + 1, remaining - Len(bufs[i]))

ReadBufs_as_slices(rbs) ==
    LET p == SplitPosition(rbs.bufs, 1, rbs.initialized)
    IN IF p.some
       THEN [panic |-> FALSE, head |-> Take(rbs.bufs, p.split),
             tail |-> Drop(rbs.bufs, p.split)]
       ELSE IF p.remaining = 0
       THEN [panic |-> FALSE, head |-> rbs.bufs, tail |-> <<>>]
       ELSE [panic |-> TRUE, head |-> <<>>, tail |-> <<>>]

\* the closure of as_init_to on one slice: the zero-fill of
\* buf[initialized.saturating_sub(len)..] when seen_len + buf.len() > initialized
\* (the slicing panics when the start is past the slice's end)
ZeroFillFrom(buf, seen_len, initialized, len) ==
    LET start == SaturatingSub(initialized, len)
    IN IF seen_len + Len(buf) > initialized
       THEN IF start > Len(buf)
            THEN [panic |-> TRUE, buf |-> buf]
            ELSE [panic |-> FALSE,
                  buf |-> [j \in 1..Len(buf) |-> IF j > start THEN 0 ELSE buf[j]]]
       ELSE [panic |-> FALSE, buf |-> buf]

\* bufs.iter_mut().position(..) of as_init_to from slice i on; cutoff is the
\* 0-based index of the first slice at which seen_len >= len, none when the
\* slices run out (the expect("invalid len") panic)
RECURSIVE InitPosition(_, _, _, _, _)
InitPosition(bufs, i, seen_len, initialized, len) ==
    IF i > Len(bufs)
    THEN [panic |-> TRUE, bufs |-> bufs, seen_len |-> seen_len, cutoff |-> 0]
    ELSE LET z == ZeroFillFrom(bufs[i], seen_len, initialized, len)
             bufs2 == [bufs EXCEPT ![i] = z.buf]
             seen2 == seen_len + Len(bufs[i])
         IN IF z.panic
            THEN [panic |-> TRUE, bufs |-> bufs, seen_len |-> seen_len, cutoff |-> 0]
            ELSE IF seen2 >= len
            THEN [panic |-> FALSE, bufs |-> bufs2, seen_len |-> seen2, cutoff |-> i - 1]
            ELSE InitPosition(bufs2, i + 1, seen2, initialized, len)

\* as_init_to storing seen_len as the cursor where the source calls
\* assume_initialized(seen_len): a shorter call lowers the cursor
ReadBufs_as_init_to_Store(rbs, len) ==
    LET p == InitPosition(rbs.bufs, 1, 0, rbs.initialized, len)
    IN IF p.panic
       THEN [rbs |-> [rbs EXCEPT !.bufs = p.bufs], panic |-> TRUE, out |-> <<>>]
       ELSE [rbs |-> [bufs |-> p.bufs, initialized |-> p.seen_len],
             panic |-> FALSE, out |-> Take(p.bufs, p.cutoff + 1)]

\* as_init_to calling assume_initialized(len) where the source passes seen_len:
\* the cursor stops at len, inside the last slice it returns
ReadBufs_as_init_to_ToLen(rbs, len) ==
    LET p == InitPosition(rbs.bufs, 1, 0, rbs.initialized, len)
    IN IF p.panic
       THEN [rbs |-> [rbs EXCEPT !.bufs = p.bufs], panic |-> TRUE, out |-> <<>>]
       ELSE [rbs |-> ReadBufs_assume_initialized([rbs EXCEPT !.bufs = p.bufs], len),
             panic |-> FALSE, out |-> Take(p.bufs, p.cutoff + 1)]

ReadBufs_as_init_to(rbs, len) ==
    LET p == InitPosition(rbs.bufs, 1, 0, rbs.initialized, len)
    IN IF p.panic
       THEN [rbs |-> [rbs EXCEPT !.bufs = p.bufs], panic |-> TRUE, out |-> <<>>]
       ELSE [rbs |-> ReadBufs_assume_initialized([rbs EXCEPT !.bufs = p.bufs], p.seen_len),
             panic |-> FALSE, out |-> Take(p.bufs, p.cutoff + 1)]

ReadBufs_as_init(rbs) == ReadBufs_as_init_to(rbs, SumLens(rbs.bufs))

----------------------------------------------------------------------------
(* The buffers a caller can construct *)

RECURSIVE SeqsUpTo(_, _)
SeqsUpTo(S, n) ==
    IF n = 0 THEN {<<>>}
    ELSE LET shorter == SeqsUpTo(S, n - 1)
         IN shorter \cup {Append(s, x) : s \in {t \in shorter : Len(t) = n - 1}, x \in S}

SeqsOfLen(S, n) == [1..n -> S]

\* the shapes of a slice sequence: the lengths of its slices
Shapes == {s \in SeqsUpTo(0..MaxSliceLen, MaxSlices) :
              SumLens([k \in 1..Len(s) |-> Fill(s[k], 0)]) <= MaxTotal}

\* every filling of a shape with initialized bytes
RECURSIVE Fillings(_)
Fillings(shape) ==
    IF shape = <<>> THEN {<<>>}
    ELSE {<<b>> \o rest : b \in SeqsOfLen(ByteVals, Head(shape)), rest \in Fillings(Tail(shape))}

BufsInitOps == {"ReadBufs.as_init_to", "ReadBufs.as_init"}
BufInitOps == {"ReadBuf.as_init_to", "ReadBuf.as_init"}

\* the after field of ret: the len of the call before, when that call was
\* an as_init_to or as_init of the same buffer (one of ops) that returned
NotAfter == 0 - 1
AfterInit(ops) == IF ret.op \in ops THEN ret.arg ELSE NotAfter

NoOp == [op |-> "none", arg |-> 0, head |-> <<>>, tail |-> <<>>, after |-> NotAfter]

EmptyReadBuf == ReadBuf_new(<<>>)
EmptyReadBufs == ReadBufs_new(<<>>)

InitReadBuf ==
    \E n \in 0..MaxLen :
       \/ \E b \in SeqsOfLen(ByteVals, n) :
             /\ readBuf = ReadBuf_new(b)
             /\ ctor = [buf |-> "new", len |-> n, bufs |-> "new"]
       \/ /\ readBuf = ReadBuf_new_uninit(Fill(n, U))
          /\ ctor = [buf |-> "new_uninit", len |-> n, bufs |-> "new"]

InitReadBufs ==
    \E shape \in Shapes :
       \/ \E b \in Fillings(shape) :
             /\ readBufs = ReadBufs_new(b)
             /\ ctor = [buf |-> "new", len |-> 0, bufs |-> "new"]
       \/ /\ readBufs = ReadBufs_new_uninit([k \in 1..Len(shape) |-> Fill(shape[k], U)])
          /\ ctor = [buf |-> "new", len |-> 0, bufs |-> "new_uninit"]

NoLocals == [base |-> 0, initial_len |-> 0, initialized |-> 0, entry |-> <<>>,
             len |-> 0, nread |-> 0]
NoRead == [at |-> 0, cap |-> 0, init |-> 0, fin |-> 0, err |-> FALSE, n |-> 0]
NoReads == [count |-> 0, last |-> NoRead, data |-> <<>>]
NoResult == [kind |-> "none", n |-> 0]
EmptyVec == [mem |-> <<>>, len |-> 0]
NoSink == [count |-> 0, err |-> FALSE, last |-> <<>>, data |-> <<>>]

IdleLoops ==
    /\ pc = "idle"
    /\ loc = NoLocals
    /\ vec = EmptyVec
    /\ reader = [imp |-> "none", pos |-> 0]
    /\ reads = NoReads
    /\ result = NoResult
    /\ sink = NoSink

Init ==
    /\ \/ InitReadBuf /\ readBufs = EmptyReadBufs
       \/ InitReadBufs /\ readBuf = EmptyReadBuf
    /\ ret = NoOp
    /\ panicked = FALSE
    /\ IdleLoops

----------------------------------------------------------------------------
(* One action per call on a ReadBuf *)

BufAssumeInitialized ==
    /\ ~panicked
    /\ \E n \in 0..ReadBuf_len(readBuf) :
          /\ InitPrefix(readBuf.buf, n)
          /\ readBuf' = ReadBuf_assume_initialized(readBuf, n)
          /\ ret' = [op |-> "ReadBuf.assume_initialized", arg |-> n,
                     head |-> <<>>, tail |-> <<>>, after |-> NotAfter]
    /\ UNCHANGED <<readBufs, ctor, panicked, loopVars>>

BufAsUninitWrite ==
    /\ ~panicked
    /\ \E i \in 1..ReadBuf_len(readBuf), v \in ByteVals :
          /\ readBuf' = ReadBuf_as_uninit_write(readBuf, i, v)
          /\ ret' = [op |-> "ReadBuf.as_uninit", arg |-> i - 1,
                     head |-> <<>>, tail |-> <<>>, after |-> NotAfter]
    /\ UNCHANGED <<readBufs, ctor, panicked, loopVars>>

BufAsSlices ==
    /\ ~panicked
    /\ LET r == ReadBuf_as_slices(readBuf)
       IN ret' = [op |-> "ReadBuf.as_slices", arg |-> 0,
                  head |-> r.head, tail |-> r.tail, after |-> NotAfter]
    /\ UNCHANGED <<readBuf, readBufs, ctor, panicked, loopVars>>

BufAsInit ==
    /\ ~panicked
    /\ LET r == ReadBuf_as_init(readBuf)
       IN /\ readBuf' = r.rb
          /\ panicked' = r.panic
          /\ ret' = [op |-> "ReadBuf.as_init", arg |-> ReadBuf_len(readBuf),
                     head |-> r.out, tail |-> <<>>, after |-> AfterInit(BufInitOps)]
    /\ UNCHANGED <<readBufs, ctor, loopVars>>

BufAsInitTo ==
    /\ ~panicked
    /\ \E len \in 0..(ReadBuf_len(readBuf) + 1) :
          LET r == ReadBuf_as_init_to(readBuf, len)
          IN /\ readBuf' = r.rb
             /\ panicked' = r.panic
             /\ ret' = [op |-> "ReadBuf.as_init_to", arg |-> len,
                        head |-> r.out, tail |-> <<>>, after |-> AfterInit(BufInitOps)]
    /\ UNCHANGED <<readBufs, ctor, loopVars>>

----------------------------------------------------------------------------
(* One action per call on a ReadBufs *)

BufsAssumeInitialized ==
    /\ ~panicked
    /\ \E n \in 0..SumLens(readBufs.bufs) :
          /\ InitPrefix(Flat(readBufs.bufs), n)
          /\ readBufs' = ReadBufs_assume_initialized(readBufs, n)
          /\ ret' = [op |-> "ReadBufs.assume_initialized", arg |-> n,
                     head |-> <<>>, tail |-> <<>>, after |-> NotAfter]
    /\ UNCHANGED <<readBuf, ctor, panicked, loopVars>>

BufsAsUninitWrite ==
    /\ ~panicked
    /\ \E k \in 1..Len(readBufs.bufs) :
          \E j \in 1..Len(readBufs.bufs[k]), v \in ByteVals :
             /\ readBufs' = ReadBufs_as_uninit_write(readBufs, k, j, v)
             /\ ret' = [op |-> "ReadBufs.as_uninit", arg |-> k - 1,
                        head |-> <<>>, tail |-> <<>>, after |-> NotAfter]
    /\ UNCHANGED <<readBuf, ctor, panicked, loopVars>>

BufsAsSlices ==
    /\ ~panicked
    /\ LET r == ReadBufs_as_slices(readBufs)
       IN /\ panicked' = r.panic
          /\ ret' = [op |-> "ReadBufs.as_slices", arg |-> 0,
                     head |-> r.head, tail |-> r.tail, after |-> NotAfter]
    /\ UNCHANGED <<readBuf, readBufs, ctor, loopVars>>

BufsAsInit ==
    /\ ~panicked
    /\ LET r == ReadBufs_as_init(readBufs)
       IN /\ readBufs' = r.rbs
          /\ panicked' = r.panic
          /\ ret' = [op |-> "ReadBufs.as_init", arg |-> SumLens(readBufs.bufs),
                     head |-> r.out, tail |-> <<>>, after |-> AfterInit(BufsInitOps)]
    /\ UNCHANGED <<readBuf, ctor, loopVars>>

BufsAsInitTo ==
    /\ ~panicked
    /\ \E len \in 0..(SumLens(readBufs.bufs) + 1) :
          LET r == ReadBufs_as_init_to(readBufs, len)
          IN /\ readBufs' = r.rbs
             /\ panicked' = r.panic
             /\ ret' = [op |-> "ReadBufs.as_init_to", arg |-> len,
                        head |-> r.out, tail |-> <<>>, after |-> AfterInit(BufsInitOps)]
    /\ UNCHANGED <<readBuf, ctor, loopVars>>

Next ==
    \/ BufAssumeInitialized
    \/ BufAsUninitWrite
    \/ BufAsSlices
    \/ BufAsInit
    \/ BufAsInitTo
    \/ BufsAssumeInitialized
    \/ BufsAsUninitWrite
    \/ BufsAsSlices
    \/ BufsAsInit
    \/ BufsAsInitTo

Spec == Init /\ [][Next]_vars

----------------------------------------------------------------------------
(* Read2: src/src/read.rs *)

\* The source: the byte at position p of its stream.  The stream's bytes are
\* non-zero, so that they differ from a zero-fill.
StreamByte(p) == 1 + (p % 2)
Chunk(pos, n) == [i \in 1..n |-> StreamByte(pos + i - 1)]

\* what the underlying read answers: n bytes placed at the start of the
\* slice it is given, or an error
OkAns(pos, n) == [err |-> FALSE, n |-> n, data |-> Chunk(pos, n)]
ErrAns == [err |-> TRUE, n |-> 0, data |-> <<>>]

\* the default read_buf: self.read(buf.as_init())
Read2_read_buf(rb, ans) ==
    LET r == ReadBuf_as_init(rb)
    IN IF ans.err
       THEN [rb |-> r.rb, err |-> TRUE, n |-> 0]
       ELSE [rb |-> [r.rb EXCEPT !.buf = ans.data \o Drop(r.rb.buf, ans.n)],
             err |-> FALSE, n |-> ans.n]

\* the TcpStream override declaring the whole buffer initialized
\* (raw_buf.len() for the count libc::read returned)
TcpStream_read_buf_WholeBuf(rb, ans) ==
    IF ans.err
    THEN [rb |-> rb, err |-> TRUE, n |-> 0]
    ELSE [rb |-> ReadBuf_assume_initialized(
                    [rb EXCEPT !.buf = ans.data \o Drop(rb.buf, ans.n)], Len(rb.buf)),
          err |-> FALSE, n |-> ans.n]

\* the TcpStream override: libc::read into as_uninit(), then
\* assume_initialized(len) on success
TcpStream_read_buf(rb, ans) ==
    IF ans.err
    THEN [rb |-> rb, err |-> TRUE, n |-> 0]
    ELSE [rb |-> ReadBuf_assume_initialized(
                    [rb EXCEPT !.buf = ans.data \o Drop(rb.buf, ans.n)], ans.n),
          err |-> FALSE, n |-> ans.n]

\* flat cut into slices of the lengths of the slices of bufs
RECURSIVE Unflat(_, _)
Unflat(bufs, flat) ==
    IF bufs = <<>> THEN <<>>
    ELSE <<Take(flat, Len(Head(bufs)))>> \o Unflat(Tail(bufs), Drop(flat, Len(Head(bufs))))

\* a vectored read (read_vectored, readv) storing data in the slices in order
StoreVectored(bufs, data) ==
    Unflat(bufs, data \o Drop(Flat(bufs), Len(data)))

\* the default read_bufs: self.read_vectored(bufs.as_init())
Read2_read_bufs(rbs, ans) ==
    LET r == ReadBufs_as_init(rbs)
        given == Len(r.out)
    IN IF r.panic
       THEN [rbs |-> r.rbs, panic |-> TRUE, err |-> FALSE, n |-> 0]
       ELSE IF ans.err
       THEN [rbs |-> r.rbs, panic |-> FALSE, err |-> TRUE, n |-> 0]
       ELSE [rbs |-> [r.rbs EXCEPT !.bufs = StoreVectored(Take(@, given), ans.data)
                                             \o Drop(@, given)],
             panic |-> FALSE, err |-> FALSE, n |-> ans.n]

\* the TcpStream override: libc::readv into as_uninit(), then
\* assume_initialized(len) on success
TcpStream_read_bufs(rbs, ans) ==
    IF ans.err
    THEN [rbs |-> rbs, panic |-> FALSE, err |-> TRUE, n |-> 0]
    ELSE [rbs |-> ReadBufs_assume_initialized(
                     [rbs EXCEPT !.bufs = StoreVectored(@, ans.data)], ans.n),
          panic |-> FALSE, err |-> FALSE, n |-> ans.n]

\* what one read_buf call of a loop was handed and left behind: the offset of
\* the ReadBuf in the memory it borrows, its len(), its initialized() when it
\* was made and its initialized() after the call
View(at, made, after) ==
    [at |-> at, cap |-> ReadBuf_len(made), init |-> made.initialized,
     fin |-> after.initialized]

NoView == [at |-> 0, cap |-> 0, init |-> 0, fin |-> 0]

Impls == {"Read2", "TcpStream"}

read_buf(imp, rb, ans) ==
    IF imp = "TcpStream" THEN TcpStream_read_buf(rb, ans) ELSE Read2_read_buf(rb, ans)

\* the pass of read_buf_exact advancing base by temp_buf.initialized()
\* instead of by the count the read returned
Read2_read_buf_exact_ByInitialized(buf, base_, imp, ans) ==
    IF buf.initialized < base_
    THEN [buf |-> buf, base |-> base_, out |-> "panic", view |-> NoView]
    ELSE LET temp_init == buf.initialized - base_
             temp_buf == ReadBuf_assume_initialized(
                            ReadBuf_new_uninit(Drop(buf.buf, base_)), temp_init)
             r == read_buf(imp, temp_buf, ans)
             stored == [buf EXCEPT !.buf = Take(buf.buf, base_) \o r.rb.buf]
         IN IF r.err
            THEN [buf |-> stored, base |-> base_, out |-> "Err",
                  view |-> View(base_, temp_buf, r.rb)]
            ELSE IF r.n = 0
            THEN [buf |-> stored, base |-> base_, out |-> "UnexpectedEof",
                  view |-> View(base_, temp_buf, r.rb)]
            ELSE [buf |-> ReadBuf_assume_initialized(stored, base_ + r.rb.initialized),
                  base |-> base_ + r.rb.initialized, out |-> "continue",
                  view |-> View(base_, temp_buf, r.rb)]

\* the pass of read_buf_exact without the len == 0 test
Read2_read_buf_exact_NoEofTest(buf, base_, imp, ans) ==
    IF buf.initialized < base_
    THEN [buf |-> buf, base |-> base_, out |-> "panic", view |-> NoView]
    ELSE LET temp_init == buf.initialized - base_
             temp_buf == ReadBuf_assume_initialized(
                            ReadBuf_new_uninit(Drop(buf.buf, base_)), temp_init)
             r == read_buf(imp, temp_buf, ans)
             stored == [buf EXCEPT !.buf = Take(buf.buf, base_) \o r.rb.buf]
         IN IF r.err
            THEN [buf |-> stored, base |-> base_, out |-> "Err",
                  view |-> View(base_, temp_buf, r.rb)]
            ELSE [buf |-> ReadBuf_assume_initialized(stored, base_ + r.rb.initialized),
                  base |-> base_ + r.n, out |-> "continue",
                  view |-> View(base_, temp_buf, r.rb)]

\* the pass of read_buf_exact calling buf.assume_initialized with
\* temp_buf.initialized(), base not added
Read2_read_buf_exact_NoBase(buf, base_, imp, ans) ==
    IF buf.initialized < base_
    THEN [buf |-> buf, base |-> base_, out |-> "panic", view |-> NoView]
    ELSE LET temp_init == buf.initialized - base_
             temp_buf == ReadBuf_assume_initialized(
                            ReadBuf_new_uninit(Drop(buf.buf, base_)), temp_init)
             r == read_buf(imp, temp_buf, ans)
             stored == [buf EXCEPT !.buf = Take(buf.buf, base_) \o r.rb.buf]
         IN IF r.err
            THEN [buf |-> stored, base |-> base_, out |-> "Err",
                  view |-> View(base_, temp_buf, r.rb)]
            ELSE IF r.n = 0
            THEN [buf |-> stored, base |-> base_, out |-> "UnexpectedEof",
                  view |-> View(base_, temp_buf, r.rb)]
            ELSE [buf |-> ReadBuf_assume_initialized(stored, r.rb.initialized),
                  base |-> base_ + r.n, out |-> "continue",
                  view |-> View(base_, temp_buf, r.rb)]

\* One pass of the body of read_buf_exact's loop.  temp_buf borrows
\* buf.as_uninit()[base..], so what the read stores lands in buf's memory.
Read2_read_buf_exact(buf, base_, imp, ans) ==
    IF buf.initialized < base_
    THEN [buf |-> buf, base |-> base_, out |-> "panic", view |-> NoView]
    ELSE LET temp_init == buf.initialized - base_
             temp_buf == ReadBuf_assume_initialized(
                            ReadBuf_new_uninit(Drop(buf.buf, base_)), temp_init)
             r == read_buf(imp, temp_buf, ans)
             stored == [buf EXCEPT !.buf = Take(buf.buf, base_) \o r.rb.buf]
         IN IF r.err
            THEN [buf |-> stored, base |-> base_, out |-> "Err",
                  view |-> View(base_, temp_buf, r.rb)]
            ELSE IF r.n = 0
            THEN [buf |-> stored, base |-> base_, out |-> "UnexpectedEof",
                  view |-> View(base_, temp_buf, r.rb)]
            ELSE [buf |-> ReadBuf_assume_initialized(stored, base_ + r.rb.initialized),
                  base |-> base_ + r.n, out |-> "continue",
                  view |-> View(base_, temp_buf, r.rb)]

\* Vec<u8>: mem is the allocation (capacity bytes), of which the first len
\* are the vector's contents
Vec_capacity(v) == Len(v.mem)

\* VecExt::spare_capacity_mut: the bytes from len to capacity
Vec_spare_capacity_mut(v) == Drop(v.mem, v.len)

\* Vec::reserve: room for additional more bytes, growing amortized
Vec_reserve(v, additional) ==
    IF Vec_capacity(v) - v.len >= additional
    THEN v
    ELSE LET cap == Max(2 * Vec_capacity(v), v.len + additional)
         IN [v EXCEPT !.mem = Take(v.mem, v.len) \o Fill(cap - v.len, U)]

Vec_set_len(v, new_len) == [v EXCEPT !.len = new_len]

\* the pass of read_to_end2 returning Ok(buf.len()) on end of stream
Read2_read_to_end2_TotalLen(v, initialized, initial_len, imp, ans) ==
    LET grown == IF v.len = Vec_capacity(v) THEN Vec_reserve(v, ReserveChunk) ELSE v
        read_buf0 == ReadBuf_assume_initialized(
                        ReadBuf_new_uninit(Vec_spare_capacity_mut(grown)), initialized)
        r == read_buf(imp, read_buf0, ans)
        stored == [grown EXCEPT !.mem = Take(grown.mem, grown.len) \o r.rb.buf]
    IN IF r.err
       THEN [vec |-> stored, initialized |-> initialized, out |-> "Err", n |-> 0,
             view |-> View(grown.len, read_buf0, r.rb)]
       ELSE IF r.n = 0
       THEN [vec |-> stored, initialized |-> initialized, out |-> "Ok", n |-> stored.len,
             view |-> View(grown.len, read_buf0, r.rb)]
       ELSE IF r.rb.initialized < r.n
       THEN [vec |-> stored, initialized |-> initialized, out |-> "panic", n |-> 0,
             view |-> View(grown.len, read_buf0, r.rb)]
       ELSE [vec |-> Vec_set_len(stored, stored.len + r.n),
             initialized |-> r.rb.initialized - r.n, out |-> "continue", n |-> 0,
             view |-> View(grown.len, read_buf0, r.rb)]

\* the pass of read_to_end2 without the nread == 0 test
Read2_read_to_end2_NoEofTest(v, initialized, initial_len, imp, ans) ==
    LET grown == IF v.len = Vec_capacity(v) THEN Vec_reserve(v, ReserveChunk) ELSE v
        read_buf0 == ReadBuf_assume_initialized(
                        ReadBuf_new_uninit(Vec_spare_capacity_mut(grown)), initialized)
        r == read_buf(imp, read_buf0, ans)
        stored == [grown EXCEPT !.mem = Take(grown.mem, grown.len) \o r.rb.buf]
    IN IF r.err
       THEN [vec |-> stored, initialized |-> initialized, out |-> "Err", n |-> 0,
             view |-> View(grown.len, read_buf0, r.rb)]
       ELSE IF r.rb.initialized < r.n
       THEN [vec |-> stored, initialized |-> initialized, out |-> "panic", n |-> 0,
             view |-> View(grown.len, read_buf0, r.rb)]
       ELSE [vec |-> Vec_set_len(stored, stored.len + r.n),
             initialized |-> r.rb.initialized - r.n, out |-> "continue", n |-> 0,
             view |-> View(grown.len, read_buf0, r.rb)]

\* the pass of read_to_end2 carrying read_buf.initialized() forward without
\* taking nread off it
Read2_read_to_end2_KeepsCount(v, initialized, initial_len, imp, ans) ==
    LET grown == IF v.len = Vec_capacity(v) THEN Vec_reserve(v, ReserveChunk) ELSE v
        read_buf0 == ReadBuf_assume_initialized(
                        ReadBuf_new_uninit(Vec_spare_capacity_mut(grown)), initialized)
        r == read_buf(imp, read_buf0, ans)
        stored == [grown EXCEPT !.mem = Take(grown.mem, grown.len) \o r.rb.buf]
    IN IF r.err
       THEN [vec |-> stored, initialized |-> initialized, out |-> "Err", n |-> 0,
             view |-> View(grown.len, read_buf0, r.rb)]
       ELSE IF r.n = 0
       THEN [vec |-> stored, initialized |-> initialized, out |-> "Ok",
             n |-> stored.len - initial_len,
             view |-> View(grown.len, read_buf0, r.rb)]
       ELSE IF r.rb.initialized < r.n
       THEN [vec |-> stored, initialized |-> initialized, out |-> "panic", n |-> 0,
             view |-> View(grown.len, read_buf0, r.rb)]
       ELSE [vec |-> Vec_set_len(stored, stored.len + r.n),
             initialized |-> r.rb.initialized, out |-> "continue", n |-> 0,
             view |-> View(grown.len, read_buf0, r.rb)]

\* the pass of read_to_end2 making every ReadBuf with initialized() = 0:
\* nothing is carried from one pass to the next
Read2_read_to_end2_NoCarry(v, initialized, initial_len, imp, ans) ==
    LET grown == IF v.len = Vec_capacity(v) THEN Vec_reserve(v, ReserveChunk) ELSE v
        read_buf0 == ReadBuf_new_uninit(Vec_spare_capacity_mut(grown))
        r == read_buf(imp, read_buf0, ans)
        stored == [grown EXCEPT !.mem = Take(grown.mem, grown.len) \o r.rb.buf]
    IN IF r.err
       THEN [vec |-> stored, initialized |-> initialized, out |-> "Err", n |-> 0,
             view |-> View(grown.len, read_buf0, r.rb)]
       ELSE IF r.n = 0
       THEN [vec |-> stored, initialized |-> initialized, out |-> "Ok",
             n |-> stored.len - initial_len,
             view |-> View(grown.len, read_buf0, r.rb)]
       ELSE IF r.rb.initialized < r.n
       THEN [vec |-> stored, initialized |-> initialized, out |-> "panic", n |-> 0,
             view |-> View(grown.len, read_buf0, r.rb)]
       ELSE [vec |-> Vec_set_len(stored, stored.len + r.n),
             initialized |-> r.rb.initialized - r.n, out |-> "continue", n |-> 0,
             view |-> View(grown.len, read_buf0, r.rb)]

\* One pass of the body of read_to_end2's loop.
Read2_read_to_end2(v, initialized, initial_len, imp, ans) ==
    LET grown == IF v.len = Vec_capacity(v) THEN Vec_reserve(v, ReserveChunk) ELSE v
        read_buf0 == ReadBuf_assume_initialized(
                        ReadBuf_new_uninit(Vec_spare_capacity_mut(grown)), initialized)
        r == read_buf(imp, read_buf0, ans)
        stored == [grown EXCEPT !.mem = Take(grown.mem, grown.len) \o r.rb.buf]
    IN IF r.err
       THEN [vec |-> stored, initialized |-> initialized, out |-> "Err", n |-> 0,
             view |-> View(grown.len, read_buf0, r.rb)]
       ELSE IF r.n = 0
       THEN [vec |-> stored, initialized |-> initialized, out |-> "Ok",
             n |-> stored.len - initial_len,
             view |-> View(grown.len, read_buf0, r.rb)]
       ELSE IF r.rb.initialized < r.n
       THEN [vec |-> stored, initialized |-> initialized, out |-> "panic", n |-> 0,
             view |-> View(grown.len, read_buf0, r.rb)]
       ELSE [vec |-> Vec_set_len(stored, stored.len + r.n),
             initialized |-> r.rb.initialized - r.n, out |-> "continue", n |-> 0,
             view |-> View(grown.len, read_buf0, r.rb)]

\* the spare capacity the next pass of read_to_end2 hands to read_buf
NextSpare(v) ==
    Vec_spare_capacity_mut(IF v.len = Vec_capacity(v) THEN Vec_reserve(v, ReserveChunk) ELSE v)

IdleData ==
    /\ readBufs = EmptyReadBufs
    /\ ret = NoOp
    /\ panicked = FALSE

----------------------------------------------------------------------------
(* read_buf_exact as a process: one step per read_buf call *)

\* the buffer the caller passes: made by new, or by new_uninit and then
\* told by assume_initialized(k) of the k bytes the caller had stored
InitExact ==
    /\ \E n \in 0..MaxExactLen :
          \/ \E b \in SeqsOfLen(ByteVals, n) :
                /\ readBuf = ReadBuf_new(b)
                /\ ctor = [buf |-> "new", len |-> n, bufs |-> "new"]
          \/ \E k \in 0..n : \E b \in SeqsOfLen(ByteVals, k) :
                /\ readBuf = ReadBuf_assume_initialized(
                                 ReadBuf_new_uninit(b \o Fill(n - k, U)), k)
                /\ ctor = [buf |-> "new_uninit", len |-> n, bufs |-> "new"]
    /\ IdleData
    /\ pc = "exact"
    /\ loc = NoLocals
    /\ vec = EmptyVec
    /\ reader \in [imp : Impls, pos : {0}]
    /\ reads = NoReads
    /\ result = NoResult
    /\ sink = NoSink

\* the pass of the loop whose read_buf gets the answer ans
ExactPass(ans) ==
    LET r == Read2_read_buf_exact(readBuf, loc.base, reader.imp, ans)
    IN /\ readBuf' = r.buf
       /\ loc' = [loc EXCEPT !.base = r.base]
       /\ reader' = IF r.out = "panic" THEN reader
                    ELSE [reader EXCEPT !.pos = @ + ans.n]
       /\ reads' = IF r.out = "panic" THEN reads
                   ELSE [count |-> reads.count + 1,
                         last |-> [at |-> r.view.at, cap |-> r.view.cap,
                                   init |-> r.view.init, fin |-> r.view.fin,
                                   err |-> ans.err, n |-> ans.n],
                         data |-> reads.data \o ans.data]
       /\ pc' = IF r.out = "continue" THEN "exact" ELSE "done"
       /\ result' = IF r.out = "continue" THEN result ELSE [kind |-> r.out, n |-> 0]
       /\ panicked' = (r.out = "panic")
       /\ UNCHANGED <<readBufs, ctor, ret, vec, sink>>

ReadBufExactRead ==
    /\ pc = "exact"
    /\ ReadBuf_len(readBuf) > loc.base
    /\ \E n \in 1..(ReadBuf_len(readBuf) - loc.base) : ExactPass(OkAns(reader.pos, n))

ReadBufExactEof ==
    /\ pc = "exact"
    /\ ReadBuf_len(readBuf) > loc.base
    /\ ExactPass(OkAns(reader.pos, 0))

ReadBufExactErr ==
    /\ pc = "exact"
    /\ ReadBuf_len(readBuf) > loc.base
    /\ ExactPass(ErrAns)

ReadBufExactReturn ==
    /\ pc = "exact"
    /\ ~(ReadBuf_len(readBuf) > loc.base)
    /\ pc' = "done"
    /\ result' = [kind |-> "Ok", n |-> 0]
    /\ UNCHANGED <<dataVars, loc, vec, reader, reads, sink>>

NextExact ==
    \/ ReadBufExactRead
    \/ ReadBufExactEof
    \/ ReadBufExactErr
    \/ ReadBufExactReturn

SpecExact == InitExact /\ [][NextExact]_vars

----------------------------------------------------------------------------
(* read_to_end2 as a process: one step per read_buf call *)

InitToEnd ==
    /\ \E d \in SeqsUpTo(ByteVals, MaxVecLen), spare \in 0..MaxSpare :
          /\ vec = [mem |-> d \o Fill(spare, U), len |-> Len(d)]
          /\ loc = [NoLocals EXCEPT !.initial_len = Len(d), !.entry = d]
    /\ readBuf = EmptyReadBuf
    /\ ctor = [buf |-> "new", len |-> 0, bufs |-> "new"]
    /\ IdleData
    /\ pc = "reading"
    /\ reader \in [imp : Impls, pos : {0}]
    /\ reads = NoReads
    /\ result = NoResult
    /\ sink = NoSink

ToEndPass(ans) ==
    LET r == Read2_read_to_end2(vec, loc.initialized, loc.initial_len, reader.imp, ans)
    IN /\ vec' = r.vec
       /\ loc' = [loc EXCEPT !.initialized = r.initialized]
       /\ reader' = [reader EXCEPT !.pos = @ + ans.n]
       /\ reads' = [count |-> reads.count + 1,
                    last |-> [at |-> r.view.at, cap |-> r.view.cap,
                              init |-> r.view.init, fin |-> r.view.fin,
                              err |-> ans.err, n |-> ans.n],
                    data |-> reads.data \o ans.data]
       /\ pc' = CASE r.out = "continue" -> "reading"
                  [] r.out = "Ok" -> "done"
                  [] r.out = "Err" -> "failed"
                  [] OTHER -> "panicked"
       /\ result' = IF r.out = "continue" THEN result ELSE [kind |-> r.out, n |-> r.n]
       /\ panicked' = (r.out = "panic")
       /\ UNCHANGED <<readBuf, readBufs, ctor, ret, sink>>

ReadToEndRead ==
    /\ pc = "reading"
    /\ \E n \in 1..Min(Len(NextSpare(vec)), MaxStream - reader.pos) :
          ToEndPass(OkAns(reader.pos, n))

ReadToEndEof ==
    /\ pc = "reading"
    /\ ToEndPass(OkAns(reader.pos, 0))

ReadToEndErr ==
    /\ pc = "reading"
    /\ ToEndPass(ErrAns)

NextToEnd ==
    \/ ReadToEndRead
    \/ ReadToEndEof
    \/ ReadToEndErr

SpecToEnd == InitToEnd /\ [][NextToEnd]_vars

----------------------------------------------------------------------------
(* copy as a process: one step per read_buf call and per write_all call *)

\* copy's write_all given the whole initialized prefix instead of [..nread]
copy_write_WholeHead(buf, nread, wok) ==
    LET head == ReadBuf_as_slices(buf).head
    IN IF nread > Len(head)
       THEN [out |-> "panic", data |-> <<>>]
       ELSE [out |-> IF wok THEN "continue" ELSE "Err", data |-> head]

\* copy's write_all with its result dropped instead of propagated by ?
copy_write_ErrIgnored(buf, nread, wok) ==
    LET head == ReadBuf_as_slices(buf).head
    IN IF nread > Len(head)
       THEN [out |-> "panic", data |-> <<>>]
       ELSE [out |-> "continue", data |-> Take(head, nread)]

\* let nread = reader.read_buf(&mut buf)?; the nread == 0 test; len += nread
copy_read(buf, len, imp, ans) ==
    LET r == read_buf(imp, buf, ans)
    IN IF r.err
       THEN [buf |-> r.rb, len |-> len, nread |-> 0, out |-> "Err",
             view |-> View(0, buf, r.rb)]
       ELSE IF r.n = 0
       THEN [buf |-> r.rb, len |-> len, nread |-> 0, out |-> "Ok",
             view |-> View(0, buf, r.rb)]
       ELSE [buf |-> r.rb, len |-> len + r.n, nread |-> r.n, out |-> "write",
             view |-> View(0, buf, r.rb)]

\* writer.write_all(&buf.as_slices().0[..nread])?; wok is whether the sink
\* accepts the slice (the slicing panics when nread is past the head's end)
copy_write(buf, nread, wok) ==
    LET head == ReadBuf_as_slices(buf).head
    IN IF nread > Len(head)
       THEN [out |-> "panic", data |-> <<>>]
       ELSE [out |-> IF wok THEN "continue" ELSE "Err", data |-> Take(head, nread)]

InitCopy ==
    /\ readBuf = ReadBuf_new_uninit(Fill(CopyBufLen, U))
    /\ ctor = [buf |-> "new_uninit", len |-> CopyBufLen, bufs |-> "new"]
    /\ IdleData
    /\ pc = "copy_read"
    /\ loc = NoLocals
    /\ vec = EmptyVec
    /\ reader \in [imp : Impls, pos : {0}]
    /\ reads = NoReads
    /\ result = NoResult
    /\ sink = NoSink

CopyReadPass(ans) ==
    LET r == copy_read(readBuf, loc.len, reader.imp, ans)
    IN /\ readBuf' = r.buf
       /\ loc' = [loc EXCEPT !.len = r.len, !.nread = r.nread]
       /\ reader' = [reader EXCEPT !.pos = @ + ans.n]
       /\ reads' = [count |-> reads.count + 1,
                    last |-> [at |-> r.view.at, cap |-> r.view.cap,
                              init |-> r.view.init, fin |-> r.view.fin,
                              err |-> ans.err, n |-> ans.n],
                    data |-> reads.data \o ans.data]
       /\ pc' = CASE r.out = "write" -> "copy_write"
                  [] r.out = "Ok" -> "done"
                  [] OTHER -> "failed"
       /\ result' = CASE r.out = "write" -> result
                      [] r.out = "Ok" -> [kind |-> "Ok", n |-> r.len]
                      [] OTHER -> [kind |-> "Err(read_buf)", n |-> 0]
       /\ UNCHANGED <<readBufs, ctor, ret, panicked, vec, sink>>

\* the sizes of the reads: a few bytes, or the whole buffer
ChunkSizes == (1..MaxChunk) \cup {CopyBufLen}

CopyRead ==
    /\ pc = "copy_read"
    /\ reads.count < MaxCopyReads
    /\ \E n \in ChunkSizes : CopyReadPass(OkAns(reader.pos, n))

CopyReadEof ==
    /\ pc = "copy_read"
    /\ CopyReadPass(OkAns(reader.pos, 0))

CopyReadErr ==
    /\ pc = "copy_read"
    /\ CopyReadPass(ErrAns)

CopyWritePass(wok) ==
    LET w == copy_write(readBuf, loc.nread, wok)
    IN /\ sink' = IF w.out = "panic" THEN sink
                  ELSE [count |-> sink.count + 1, err |-> ~wok, last |-> w.data,
                        data |-> IF wok THEN sink.data \o w.data ELSE sink.data]
       /\ pc' = CASE w.out = "continue" -> "copy_read"
                  [] w.out = "Err" -> "failed"
                  [] OTHER -> "panicked"
       /\ result' = CASE w.out = "continue" -> result
                      [] w.out = "Err" -> [kind |-> "Err(write_all)", n |-> 0]
                      [] OTHER -> [kind |-> "panic", n |-> 0]
       /\ panicked' = (w.out = "panic")
       /\ UNCHANGED <<readBuf, readBufs, ctor, ret, loc, vec, reader, reads>>

CopyWrite ==
    /\ pc = "copy_write"
    /\ CopyWritePass(TRUE)

CopyWriteErr ==
    /\ pc = "copy_write"
    /\ CopyWritePass(FALSE)

NextCopy ==
    \/ CopyRead
    \/ CopyReadEof
    \/ CopyReadErr
    \/ CopyWrite
    \/ CopyWriteErr

SpecCopy == InitCopy /\ [][NextCopy]_vars

----------------------------------------------------------------------------
(* <TcpStream as Read2>::read_buf called on a ReadBuf in any state *)

InitTcp ==
    /\ InitReadBuf
    /\ IdleData
    /\ IdleLoops

\* libc::read returned n >= 0 after storing n bytes at the buffer's start
TcpReadBufOk ==
    /\ ~panicked
    /\ \E n \in 0..ReadBuf_len(readBuf) :
          \E data \in SeqsOfLen(ByteVals, n) :
             LET r == TcpStream_read_buf(readBuf, [err |-> FALSE, n |-> n, data |-> data])
             IN /\ readBuf' = r.rb
                /\ ret' = [op |-> "TcpStream.read_buf", arg |-> n,
                           head |-> <<r.n>>, tail |-> <<>>, after |-> NotAfter]
    /\ UNCHANGED <<readBufs, ctor, panicked, loopVars>>

\* libc::read returned a negative value
TcpReadBufErr ==
    /\ ~panicked
    /\ LET r == TcpStream_read_buf(readBuf, ErrAns)
       IN /\ readBuf' = r.rb
          /\ ret' = [op |-> "TcpStream.read_buf", arg |-> 0 - 1,
                     head |-> <<>>, tail |-> IF r.err THEN <<"os error">> ELSE <<>>, after |-> NotAfter]
    /\ UNCHANGED <<readBufs, ctor, panicked, loopVars>>

NextTcp ==
    \/ BufAssumeInitialized
    \/ BufAsUninitWrite
    \/ BufAsInitTo
    \/ TcpReadBufOk
    \/ TcpReadBufErr

SpecTcp == InitTcp /\ [][NextTcp]_vars

----------------------------------------------------------------------------
(* read_bufs on a ReadBufs: the default method and TcpStream's override *)

InitBufs ==
    /\ InitReadBufs
    /\ readBuf = EmptyReadBuf
    /\ ret = NoOp
    /\ panicked = FALSE
    /\ IdleLoops

\* the answers of the reader to a vectored read over slices of total bytes:
\* n bytes, non-zero so that they differ from a zero-fill
VectoredAnswers(total) ==
    {[err |-> FALSE, n |-> n, data |-> Fill(n, 1)] : n \in 0..total}

ReadBufsOk ==
    /\ ~panicked
    /\ \E ans \in VectoredAnswers(SumLens(readBufs.bufs)) :
          LET r == Read2_read_bufs(readBufs, ans)
          IN /\ readBufs' = r.rbs
             /\ panicked' = r.panic
             /\ ret' = [op |-> "Read2.read_bufs", arg |-> ans.n,
                        head |-> IF r.panic THEN <<>> ELSE <<r.n>>, tail |-> <<>>,
                        after |-> NotAfter]
    /\ UNCHANGED <<readBuf, ctor, loopVars>>

ReadBufsErr ==
    /\ ~panicked
    /\ LET r == Read2_read_bufs(readBufs, ErrAns)
       IN /\ readBufs' = r.rbs
          /\ panicked' = r.panic
          /\ ret' = [op |-> "Read2.read_bufs", arg |-> 0 - 1,
                     head |-> <<>>, tail |-> IF r.err THEN <<"error">> ELSE <<>>,
                     after |-> NotAfter]
    /\ UNCHANGED <<readBuf, ctor, loopVars>>

TcpReadBufsOk ==
    /\ ~panicked
    /\ \E ans \in VectoredAnswers(SumLens(readBufs.bufs)) :
          LET r == TcpStream_read_bufs(readBufs, ans)
          IN /\ readBufs' = r.rbs
             /\ ret' = [op |-> "TcpStream.read_bufs", arg |-> ans.n,
                        head |-> <<r.n>>, tail |-> <<>>, after |-> NotAfter]
    /\ UNCHANGED <<readBuf, ctor, panicked, loopVars>>

TcpReadBufsErr ==
    /\ ~panicked
    /\ LET r == TcpStream_read_bufs(readBufs, ErrAns)
       IN /\ readBufs' = r.rbs
          /\ ret' = [op |-> "TcpStream.read_bufs", arg |-> 0 - 1,
                     head |-> <<>>, tail |-> IF r.err THEN <<"os error">> ELSE <<>>,
                     after |-> NotAfter]
    /\ UNCHANGED <<readBuf, ctor, panicked, loopVars>>

\* the stores into the slices are those of the reads
NextBufs ==
    \/ BufsAssumeInitialized
    \/ BufsAsSlices
    \/ BufsAsInit
    \/ BufsAsInitTo
    \/ ReadBufsOk
    \/ ReadBufsErr
    \/ TcpReadBufsOk
    \/ TcpReadBufsErr

SpecBufs == InitBufs /\ [][NextBufs]_vars

----------------------------------------------------------------------------
(* Claims about ReadBuf and ReadBufs *)


\* C1: ReadBufs::as_init_to(len) and as_init() never change a byte whose
\* cumulative offset is below the cursor held before the call, also when the
\* cursor was left strictly inside a slice by assume_initialized; only bytes
\* at or past the old cursor may be zero-filled.
C1_InitializedBytesKept ==
    [][(ret'.op \in BufsInitOps /\ ret'.arg <= SumLens(readBufs.bufs)) =>
         \A k \in 1..readBufs.initialized :
            Flat(readBufs'.bufs)[k] = Flat(readBufs.bufs)[k]]_vars

\* C2: ReadBuf::as_init_to(len) with len <= len() returns the first len
\* bytes; bytes below the old cursor keep their value, bytes from the old
\* cursor up to len are 0, bytes from len on are untouched, and the cursor
\* becomes max(old cursor, len); as_init() is as_init_to(len()).
C2_AsInitTo ==
    [][(ret'.op \in BufInitOps /\ ret'.arg <= ReadBuf_len(readBuf)) =>
         LET len == ret'.arg
             old == readBuf
             new == readBuf'
         IN /\ ~panicked'
            /\ ReadBuf_len(new) = ReadBuf_len(old)
            /\ ret'.head = Take(new.buf, len)
            /\ \A i \in 1..ReadBuf_len(old) :
                  /\ i <= old.initialized => new.buf[i] = old.buf[i]
                  /\ (old.initialized < i /\ i <= len) => new.buf[i] = 0
                  /\ i > len => new.buf[i] = old.buf[i]
            /\ new.initialized = Max(old.initialized, len)
            /\ ret'.op = "ReadBuf.as_init" => len = ReadBuf_len(old)]_vars

\* a written byte was kept, the gap up to len was zero-filled and the byte
\* past len was left uninitialized
C2_Witness ==
    /\ ret.op = "ReadBuf.as_init_to"
    /\ ret.arg = 2
    /\ readBuf = [buf |-> <<1, 0, U>>, initialized |-> 2]
    /\ ctor.buf = "new_uninit"

\* C3: for ReadBuf and for ReadBufs, initialized() never decreases from one
\* state to the next, and assume_initialized(n) with n <= initialized()
\* leaves it unchanged.
C3_Monotonic ==
    [][/\ readBuf'.initialized >= readBuf.initialized
       /\ readBufs'.initialized >= readBufs.initialized
       /\ (ret'.op = "ReadBuf.assume_initialized" /\ ret'.arg <= readBuf.initialized)
             => readBuf'.initialized = readBuf.initialized
       /\ (ret'.op = "ReadBufs.assume_initialized" /\ ret'.arg <= readBufs.initialized)
             => readBufs'.initialized = readBufs.initialized]_vars

\* assume_initialized was called with less than the cursor
C3_Witness ==
    /\ ret.op = "ReadBuf.assume_initialized"
    /\ ret.arg = 1
    /\ readBuf.initialized = 3

\* C4: in every state of a ReadBuf reached from new or new_uninit,
\* 0 <= initialized() <= len() and len() is what it was at construction;
\* new starts with initialized() = len() and new_uninit with 0.
C4_CursorInRange ==
    /\ 0 <= readBuf.initialized
    /\ readBuf.initialized <= ReadBuf_len(readBuf)
    /\ ReadBuf_len(readBuf) = ctor.len
    /\ ret.op = "none" =>
          /\ ctor.buf = "new" => readBuf.initialized = ReadBuf_len(readBuf)
          /\ ctor.buf = "new_uninit" => readBuf.initialized = 0

\* a new_uninit buffer whose cursor was raised to its length by as_init
C4_Witness ==
    /\ ctor.buf = "new_uninit"
    /\ ret.op = "ReadBuf.as_init"
    /\ ReadBuf_len(readBuf) = 3
    /\ readBuf.initialized = 3

\* C5: ReadBufs::as_slices() returns (head, tail) that together are the
\* whole slice sequence in order; the slices of head lie within the
\* initialized prefix; a slice the cursor lands strictly inside is the
\* first of tail; head is maximal (the first tail slice is non-empty and
\* reaches past the cursor); the call changes neither cursor nor bytes.
C5_NeverSplitsASlice ==
    [][ret'.op = "ReadBufs.as_slices" =>
         LET head == ret'.head
             tail == ret'.tail
             bufs == readBufs.bufs
         IN /\ ~panicked'
            /\ readBufs' = readBufs
            /\ head \o tail = bufs
            /\ SumLens(head) <= readBufs.initialized
            /\ \A k \in 1..Len(bufs) :
                  (/\ SumLens(Take(bufs, k - 1)) < readBufs.initialized
                   /\ readBufs.initialized < SumLens(Take(bufs, k)))
                  => Len(head) = k - 1
            /\ tail # <<>> =>
                  /\ Len(tail[1]) > 0
                  /\ SumLens(head) + Len(tail[1]) > readBufs.initialized]_vars

\* the cursor is strictly inside the second slice, which heads the tail
C5_Witness ==
    /\ ret.op = "ReadBufs.as_slices"
    /\ readBufs.initialized = 2
    /\ Len(ret.head) = 1
    /\ Len(ret.head[1]) = 1
    /\ Len(ret.tail) = 1
    /\ Len(ret.tail[1]) = 2

\* C6: ReadBufs::as_init_to(len) with len <= total returns the shortest
\* prefix of slices whose cumulative length is >= len, every byte of every
\* returned slice is initialized, and the cursor becomes
\* max(old cursor, cumulative length of the returned slices).
C6_ShortestPrefix ==
    [][(ret'.op = "ReadBufs.as_init_to" /\ ret'.arg <= SumLens(readBufs.bufs)) =>
         LET len == ret'.arg
             out == ret'.head
         IN /\ ~panicked'
            /\ out = Take(readBufs'.bufs, Len(out))
            /\ SumLens(out) >= len
            /\ \A m \in 0..(Len(out) - 1) : SumLens(Take(readBufs'.bufs, m)) < len
            /\ \A k \in 1..Len(Flat(out)) : Flat(out)[k] # U
            /\ readBufs'.initialized = Max(readBufs.initialized, SumLens(out))]_vars

----------------------------------------------------------------------------
(* Claims about read_buf_exact and read_to_end2 *)

\* C7: read_buf_exact returns Ok only after exactly buf.len() bytes were
\* read: on Ok the buffer holds the chunks of the successive reads in order,
\* their counts sum to buf.len() and buf.initialized() = buf.len(); each
\* read targets the sub-view that starts at the sum of the previous counts
\* and runs to the end of the buffer.
C7_ExactFillsBuffer ==
    /\ reads.count > 0 =>
          /\ reads.last.at = Len(reads.data) - reads.last.n
          /\ reads.last.cap = ReadBuf_len(readBuf) - reads.last.at
    /\ result.kind = "Ok" =>
          /\ readBuf.buf = reads.data
          /\ Len(reads.data) = ReadBuf_len(readBuf)
          /\ readBuf.initialized = ReadBuf_len(readBuf)
          /\ ReadBuf_len(readBuf) = ctor.len

\* Ok after two reads, of 2 bytes and of 1 byte, into an uninitialized buffer
C7_Witness ==
    /\ result.kind = "Ok"
    /\ reads.count = 2
    /\ reads.last.at = 2
    /\ ctor.buf = "new_uninit"
    /\ reader.imp = "TcpStream"
    /\ readBuf.buf = <<1, 2, 1>>

\* C8: when a read_buf returns 0 before buf.len() bytes were read,
\* read_buf_exact returns UnexpectedEof (not the transport error) and that
\* read is the last one issued; the bytes read before it are the buffer's
\* prefix and buf.initialized() is at least their number.
C8_PrematureEof ==
    LET zeroRead == reads.count > 0 /\ ~reads.last.err /\ reads.last.n = 0
    IN /\ zeroRead =>
             /\ result.kind = "UnexpectedEof"
             /\ pc = "done"
             /\ loc.base = Len(reads.data)
             /\ loc.base < ReadBuf_len(readBuf)
             /\ Take(readBuf.buf, loc.base) = reads.data
             /\ readBuf.initialized >= loc.base
       /\ result.kind = "UnexpectedEof" => zeroRead
       /\ (reads.count > 0 /\ reads.last.err) => result.kind = "Err"

\* a 4-byte request against a source that yields 2 bytes and then 0
C8_Witness ==
    /\ result.kind = "UnexpectedEof"
    /\ ReadBuf_len(readBuf) = 4
    /\ reads.count = 2
    /\ loc.base = 2
    /\ Take(readBuf.buf, 2) = <<1, 2>>

\* C9: on clean end of stream read_to_end2 returns Ok(n) with n the array's
\* final length minus its length at entry and the sum of the read counts;
\* the array's original contents are unchanged and are followed by exactly
\* the bytes the reads produced, in order.
C9_AppendsWhatWasRead ==
    result.kind = "Ok" =>
       /\ result.n = vec.len - loc.initial_len
       /\ result.n = Len(reads.data)
       /\ vec.len <= Vec_capacity(vec)
       /\ Take(vec.mem, loc.initial_len) = loc.entry
       /\ SubSeq(vec.mem, loc.initial_len + 1, vec.len) = reads.data

\* Ok(3) after reads of 2 bytes, 1 byte and 0 bytes appended to a 2-byte
\* array that had to grow
C9_Witness ==
    /\ result = [kind |-> "Ok", n |-> 3]
    /\ reads.count = 3
    /\ loc.initial_len = 2
    /\ Vec_capacity(vec) >= ReserveChunk
    /\ Take(vec.mem, vec.len) = loc.entry \o <<1, 2, 1>>

\* C10: read_to_end2 goes Reading -> Reading on a read of > 0 bytes,
\* Reading -> Done on a 0-byte read and Reading -> Failed on a read error;
\* Done and Failed are terminal (no further read), and on Failed the
\* array's length is its entry length plus the counts of the reads before.
C10_StateMachine ==
    [][/\ pc \in {"done", "failed"} => UNCHANGED vars
       /\ pc' \in {"reading", "done", "failed"}
       /\ reads' # reads =>
             LET r == reads'.last
             IN /\ pc = "reading"
                /\ (~r.err /\ r.n > 0) => pc' = "reading"
                /\ (~r.err /\ r.n = 0) => pc' = "done"
                /\ r.err =>
                      /\ pc' = "failed"
                      /\ vec'.len = vec.len
                      /\ vec'.len = loc.initial_len + Len(reads.data)]_vars

\* Failed after two reads that appended 3 bytes
C10_Witness ==
    /\ pc = "failed"
    /\ reads.count = 3
    /\ reads.last.err
    /\ vec.len = loc.initial_len + 3

----------------------------------------------------------------------------
(* Claims about copy *)

\* the last n bytes of s
LastBytes(s, n) == SubSeq(s, Len(s) - n + 1, Len(s))

\* C11: copy returns Ok(total) with total the sum of the counts of the reads
\* before the first 0-byte read; the sink gets one write_all per non-zero
\* read, carrying exactly the bytes of that read, after that read and
\* before the next one.
C11_CopyForwardsEachRead ==
    /\ pc = "copy_read" =>
          /\ sink.count = reads.count
          /\ sink.data = reads.data
          /\ sink.count > 0 => sink.last = LastBytes(reads.data, reads.last.n)
    /\ pc = "copy_write" =>
          /\ reads.last.n > 0
          /\ sink.count = reads.count - 1
          /\ sink.data = Take(reads.data, Len(reads.data) - reads.last.n)
    /\ result.kind = "Ok" =>
          /\ reads.last.n = 0
          /\ sink.count = reads.count - 1
          /\ sink.data = reads.data
          /\ result.n = Len(reads.data)

\* reads of 4096, 4096 and 0 bytes: Ok(8192) after two writes
C11_Witness ==
    /\ result = [kind |-> "Ok", n |-> 2 * CopyBufLen]
    /\ reads.count = 3
    /\ sink.count = 2
    /\ Len(sink.last) = CopyBufLen
    /\ Len(sink.data) = 2 * CopyBufLen

\* C12: when a read_buf or a write_all fails, copy returns that error,
\* issues no further read or write, and reports no byte count.
C12_CopyStopsOnError ==
    [][/\ pc \in {"done", "failed"} => UNCHANGED vars
       /\ (reads' # reads /\ reads'.last.err) =>
             /\ pc' = "failed"
             /\ result' = [kind |-> "Err(read_buf)", n |-> 0]
             /\ sink' = sink
       /\ (sink' # sink /\ sink'.err) =>
             /\ pc' = "failed"
             /\ result' = [kind |-> "Err(write_all)", n |-> 0]
             /\ reads' = reads]_vars

\* the second write fails after a first one was accepted
C12_Witness ==
    /\ pc = "failed"
    /\ result = [kind |-> "Err(write_all)", n |-> 0]
    /\ sink.count = 2
    /\ sink.err
    /\ loc.len > Len(sink.data)
    /\ Len(sink.data) > 0

----------------------------------------------------------------------------
(* Claims about the TcpStream override *)

\* C13: TcpStream's read_buf returns the OS error and leaves the ReadBuf's
\* cursor and bytes unchanged when the system read fails; when it succeeds
\* with n bytes it returns n and the cursor becomes max(old cursor, n),
\* never more.
C13_TcpReadBuf ==
    [][ret'.op = "TcpStream.read_buf" =>
         /\ ret'.arg < 0 =>
               /\ readBuf' = readBuf
               /\ ret'.head = <<>>
               /\ ret'.tail = <<"os error">>
         /\ ret'.arg >= 0 =>
               /\ ret'.head = <<ret'.arg>>
               /\ readBuf'.initialized = Max(readBuf.initialized, ret'.arg)
               /\ ReadBuf_len(readBuf') = ReadBuf_len(readBuf)
               /\ Drop(readBuf'.buf, ret'.arg) = Drop(readBuf.buf, ret'.arg)]_vars

\* a read of 2 bytes into a 3-byte uninitialized buffer
C13_Witness ==
    /\ ret.op = "TcpStream.read_buf"
    /\ ret.arg = 2
    /\ ctor.buf = "new_uninit"
    /\ readBuf.initialized = 2
    /\ ReadBuf_len(readBuf) = 3
    /\ readBuf.buf[3] = U

----------------------------------------------------------------------------
\* C14: as_init_to is idempotent, for ReadBuf and for ReadBufs: a call
\* as_init_to(len2) made right after a call as_init_to(len1) that returned,
\* with len2 <= len1, returns, changes no byte of the buffer, leaves
\* initialized() as it was, and returns a view that is a prefix of (or equal
\* to) the view the first call returned.
IsPrefix(s, t) == Len(s) <= Len(t) /\ Take(t, Len(s)) = s

C14_AsInitToIdempotent ==
    [][/\ (ret.op \in BufInitOps /\ ret'.op \in BufInitOps /\ ret'.after = ret.arg
            /\ ret'.arg <= ret.arg)
           => /\ ~panicked'
              /\ readBuf' = readBuf
              /\ IsPrefix(ret'.head, ret.head)
       /\ (ret.op \in BufsInitOps /\ ret'.op \in BufsInitOps /\ ret'.after = ret.arg
            /\ ret'.arg <= ret.arg)
           => /\ ~panicked'
              /\ readBufs' = readBufs
              /\ IsPrefix(ret'.head, ret.head)
              /\ IsPrefix(Flat(ret'.head), Flat(ret.head))]_vars

\* a shorter as_init_to right after a longer one, on slices the second view
\* does not cover
C14_Witness ==
    /\ ret.op = "ReadBufs.as_init_to" /\ ~panicked
    /\ ret.arg > 0 /\ ret.after > ret.arg
    /\ Len(ret.head) < Len(readBufs.bufs)
    /\ readBufs.initialized >= ret.after

----------------------------------------------------------------------------
\* C15: ReadBuf::as_slices() returns (head, tail) where head is exactly the
\* bytes [0, initialized()) and tail exactly the bytes [initialized(), len()):
\* the two lengths add up to len() with no gap and no overlap, and the call
\* changes neither initialized() nor any byte.
C15_AsSlices ==
    [][ret'.op = "ReadBuf.as_slices" =>
         /\ readBuf' = readBuf
         /\ ~panicked'
         /\ Len(ret'.head) = ReadBuf_initialized(readBuf)
         /\ \A i \in 1..Len(ret'.head) : ret'.head[i] = readBuf.buf[i]
         /\ Len(ret'.tail) = ReadBuf_len(readBuf) - ReadBuf_initialized(readBuf)
         /\ \A i \in 1..Len(ret'.tail) :
                ret'.tail[i] = readBuf.buf[ReadBuf_initialized(readBuf) + i]
         /\ Len(ret'.head) + Len(ret'.tail) = ReadBuf_len(readBuf)
         /\ ret'.head \o ret'.tail = readBuf.buf]_vars

\* a split strictly inside the buffer, with an uninitialized byte in the tail
C15_Witness ==
    /\ ret.op = "ReadBuf.as_slices"
    /\ Len(ret.head) = 1 /\ Len(ret.tail) = 2
    /\ ret.head[1] \in ByteVals
    /\ ret.tail[2] = U
    /\ readBuf.initialized = 1

----------------------------------------------------------------------------
\* the cursor is the cumulative length of some prefix of the slices: every
\* slice is fully covered or fully uncovered
OnBoundary(rbs) ==
    \E k \in 0..Len(rbs.bufs) : rbs.initialized = SumLens(Take(rbs.bufs, k))

\* C16 as stated: in every state between operations on a ReadBufs,
\* 0 <= initialized() <= sum of the slice lengths, and initialized() is the
\* cumulative length of some prefix of the slices (no slice is partially
\* covered).
C16_CursorOnSliceBoundary ==
    /\ 0 <= readBufs.initialized
    /\ readBufs.initialized <= SumLens(readBufs.bufs)
    /\ OnBoundary(readBufs)

\* C16, amended: in every state between operations on a ReadBufs,
\* 0 <= initialized() <= sum of the slice lengths. The cursor is on a slice
\* boundary after new and new_uninit; as_slices, as_init, as_init_to and the
\* default read_bufs never take it off a boundary, and as_init_to and the
\* default read_bufs move it only onto a boundary. Only assume_initialized(n), and TcpStream's read_bufs through
\* it with the count n of the system call, can put it strictly inside a
\* slice, and then exactly at n.
C16_CursorInRangeBoundaryKept ==
    /\ [](/\ 0 <= readBufs.initialized
          /\ readBufs.initialized <= SumLens(readBufs.bufs)
          /\ ret.op = "none" => OnBoundary(readBufs))
    /\ [][/\ (OnBoundary(readBufs) /\ ~OnBoundary(readBufs'))
              => /\ ret'.op \in {"ReadBufs.assume_initialized", "TcpStream.read_bufs"}
                 /\ readBufs'.initialized = ret'.arg
          /\ (/\ ret'.op \in BufsInitOps \cup {"Read2.read_bufs"}
              /\ readBufs'.initialized # readBufs.initialized)
              => OnBoundary(readBufs')
          /\ ret'.op = "ReadBufs.as_slices"
              => readBufs'.initialized = readBufs.initialized]_vars

\* TcpStream's read_bufs read 1 byte into uninitialized slices of 2 and 1
\* bytes: the cursor is strictly inside the first slice
C16_Witness ==
    /\ ret.op = "TcpStream.read_bufs"
    /\ ret.arg = 1
    /\ ctor.bufs = "new_uninit"
    /\ readBufs = [bufs |-> <<<<1, U>>, <<U>>>>, initialized |-> 1]
    /\ ~OnBoundary(readBufs)

----------------------------------------------------------------------------
\* C17: ReadBufs::as_init_to(len) panics when len exceeds the sum of the
\* slice lengths and returns for every len <= that sum, len = 0 and an empty
\* slice sequence included, so that as_init(), and the default read_bufs
\* that calls it, never panic; and
\* ReadBuf::as_init_to(len) panics exactly when len > len(), leaving
\* initialized() and all bytes unchanged.
C17_PanicsIffLenExceedsTotal ==
    [][/\ ret'.op \in BufsInitOps
              => (panicked' <=> ret'.arg > SumLens(readBufs.bufs))
       /\ ret'.op \in {"ReadBufs.as_init", "Read2.read_bufs"} => ~panicked'
       /\ ret'.op \in BufInitOps
              => /\ panicked' <=> ret'.arg > ReadBuf_len(readBuf)
                 /\ panicked' => readBuf' = readBuf]_vars

----------------------------------------------------------------------------
\* C18 as stated: the bookkeeping of read_buf_exact, for a source whose
\* read_buf returns a count k <= the sub-view's initialized() after the call
\* (k = 0 included). At the start of every pass of the loop
\* base <= buf.initialized() <= buf.len(), so the "invalid initialized state"
\* panic is never reached; the sub-view handed to read_buf covers exactly the
\* bytes [base, buf.len()) and is made with initialized() =
\* buf.initialized() - base; and after the read buf.initialized() is
\* max(old buf.initialized(), base + sub-view initialized()).
C18_MaxAfterEveryRead ==
    /\ [](/\ ~panicked
          /\ result.kind # "panic"
          /\ loc.base <= readBuf.initialized
          /\ readBuf.initialized <= ReadBuf_len(readBuf))
    /\ [][(/\ reads'.count = reads.count + 1
           /\ ~reads'.last.err
           /\ reads'.last.n <= reads'.last.fin) =>
            /\ reads'.last.at = loc.base
            /\ reads'.last.cap = ReadBuf_len(readBuf) - loc.base
            /\ reads'.last.init = readBuf.initialized - loc.base
            /\ readBuf'.initialized =
                  Max(readBuf.initialized, loc.base + reads'.last.fin)]_vars

\* C18, amended: the bookkeeping of read_buf_exact, for a source whose
\* read_buf returns a count k <= the sub-view's initialized() after the call.
\* At the start of every pass of the loop
\* base <= buf.initialized() <= buf.len(), so the "invalid initialized state"
\* panic is never reached; the sub-view handed to read_buf covers exactly the
\* bytes [base, buf.len()) and is made with initialized() =
\* buf.initialized() - base. After a read that returned k > 0,
\* buf.initialized() is max(old buf.initialized(), base + sub-view
\* initialized()) and base has advanced by k. A read that returned 0 and a
\* failed read return from read_buf_exact before that update:
\* buf.initialized() and base stay as they were, whatever the read
\* initialized in the sub-view.
C18_ExactBookkeeping ==
    /\ [](/\ ~panicked
          /\ result.kind # "panic"
          /\ loc.base <= readBuf.initialized
          /\ readBuf.initialized <= ReadBuf_len(readBuf)
          /\ reads.count > 0 => (~reads.last.err => reads.last.n <= reads.last.fin))
    /\ [][reads'.count = reads.count + 1 =>
            /\ reads'.last.at = loc.base
            /\ reads'.last.cap = ReadBuf_len(readBuf) - loc.base
            /\ reads'.last.init = readBuf.initialized - loc.base
            /\ reads'.last.fin >= reads'.last.init
            /\ reads'.last.fin <= reads'.last.cap
            /\ IF ~reads'.last.err /\ reads'.last.n > 0
               THEN /\ readBuf'.initialized =
                          Max(readBuf.initialized, loc.base + reads'.last.fin)
                    /\ loc'.base = loc.base + reads'.last.n
               ELSE /\ readBuf'.initialized = readBuf.initialized
                    /\ loc'.base = loc.base]_vars

\* the second pass over a 4-byte buffer of which the caller had initialized
\* 2 bytes: the sub-view starts at 1 with 1 of its 3 bytes initialized, the
\* read of 2 bytes raises its cursor to 2 and the buffer's to 3
C18_Witness ==
    /\ ctor.buf = "new_uninit"
    /\ reader.imp = "TcpStream"
    /\ reads.count = 2
    /\ reads.last.at = 1
    /\ reads.last.init = 1
    /\ reads.last.cap = 3
    /\ reads.last.n = 2
    /\ reads.last.fin = 2
    /\ readBuf.initialized = 3
    /\ loc.base = 3

----------------------------------------------------------------------------
\* C19: capacity safety of read_to_end2. At every pass of the loop the
\* carried-forward initialized count is <= the length of the array's spare
\* capacity (capacity - length), it is 0 whenever the array is grown
\* (length = capacity), and the bytes it counts are initialized bytes of the
\* spare capacity; so the ReadBuf is never made with an initialized() past
\* its len(). Every set_len(new_len) satisfies
\* new_len <= old length + the ReadBuf's initialized() <= capacity.
C19_CapacitySafety ==
    /\ [](/\ ~panicked
          /\ pc # "panicked"
          /\ loc.initialized <= Vec_capacity(vec) - vec.len
          /\ vec.len = Vec_capacity(vec) => loc.initialized = 0
          /\ InitPrefix(Vec_spare_capacity_mut(vec), loc.initialized)
          /\ vec.len <= Vec_capacity(vec))
    /\ [][reads'.count = reads.count + 1 =>
            /\ reads'.last.init = loc.initialized
            /\ reads'.last.init <= reads'.last.cap
            /\ reads'.last.at = vec.len
            /\ reads'.last.at + reads'.last.cap = Vec_capacity(vec')
            /\ vec.len = Vec_capacity(vec) =>
                  /\ reads'.last.init = 0
                  /\ reads'.last.cap >= ReserveChunk
            /\ vec'.len <= vec.len + reads'.last.fin
            /\ vec.len + reads'.last.fin <= Vec_capacity(vec')
            /\ vec'.len = vec.len + (IF reads'.last.err THEN 0 ELSE reads'.last.n)]_vars

\* the array was grown by the second pass, whose read of 1 byte left the
\* other 31 bytes of the new spare capacity initialized and carried forward
C19_Witness ==
    /\ pc = "reading"
    /\ reader.imp = "Read2"
    /\ reads.count = 2
    /\ reads.last.init = 0
    /\ reads.last.cap = ReserveChunk
    /\ reads.last.n = 1
    /\ loc.initialized = ReserveChunk - 1
    /\ Vec_capacity(vec) - vec.len = ReserveChunk - 1

----------------------------------------------------------------------------
\* C20: read_to_end2 does not zero-fill spare capacity twice. The bytes a
\* pass left initialized and did not consume (those past the nread bytes it
\* appended) are exactly the initialized prefix of the next pass's ReadBuf.
\* With the default read_buf, which zero-fills the part [initialized(), len())
\* of the ReadBuf it is handed, a pass that follows another pass without the
\* array being grown in between is handed a fully initialized ReadBuf and
\* zero-fills nothing: between two growths each spare byte is zero-filled at
\* most once, by the first pass after the growth.
C20_NoRezero ==
    [][reads'.count = reads.count + 1 =>
         /\ reads.count > 0 =>
               reads'.last.init = reads.last.fin - reads.last.n
         /\ reader.imp = "Read2" =>
               /\ reads'.last.fin = reads'.last.cap
               /\ \A i \in 1..Len(vec.mem) :
                     (i > vec.len + reads'.last.n /\ vec.mem[i] # U)
                        => vec'.mem[i] = vec.mem[i]
               /\ \A i \in 1..reads'.last.cap :
                     (i > reads'.last.n /\ i <= reads'.last.init)
                        => vec'.mem[vec.len + i] = vec.mem[vec.len + i]
               /\ (reads.count > 0 /\ vec.len < Vec_capacity(vec)) =>
                     /\ reads'.last.init = reads'.last.cap
                     /\ Vec_spare_capacity_mut(vec) = Fill(reads'.last.cap, 0)]_vars

\* a pass over the 31 bytes of spare capacity the pass before it zero-filled
\* after growing the array
C20_Witness ==
    /\ reader.imp = "Read2"
    /\ reads.count >= 2
    /\ reads.last.cap = ReserveChunk - 1
    /\ reads.last.init = ReserveChunk - 1
    /\ reads.last.n = 1
    /\ pc = "reading"

====
